---- MODULE Spec2Model ----
(***************************************************************************)
(* CoapContext (libcoap/src/context.rs): lifecycle of the context, its     *)
(* endpoints, resources and client sessions, the do_io timeout conversion, *)
(* the shutdown drain loop and the Drop teardown.                          *)
(*                                                                         *)
(* Numbers.  TLC's integers are 32-bit signed, so a u32 millisecond value  *)
(* is kept exactly as a pair [s, ms] standing for s * 1000 + ms with       *)
(* ms \in 0..999; u32::MAX = 4294967295 is the pair [4294967, 295].  A     *)
(* Duration is [secs, nanos] as in std::time::Duration.  A c_int (the      *)
(* return of coap_io_process) fits a TLC integer as it is.                 *)
(***************************************************************************)
EXTENDS Integers, Sequences, FiniteSets

\* ------------------------------------------------------------------ bounds

MaxIoCalls == 2
MaxSessions == 2
MaxEndpoints == 1
MaxResources == 1

\* ---------------------------------------------------------- value domains

\* Option::None, and "no call yet" for the records of calls.
None == [none |-> TRUE]

Addrs == {"a1", "a2"}
Paths == {"hello", "other"}

NANOS_PER_MILLI == 1000000
MILLIS_PER_SEC == 1000

Dur(secs, nanos) == [secs |-> secs, nanos |-> nanos]
ZERO == Dur(0, 0)

\* u32::MAX as s * 1000 + ms.
U32_MAX == [s |-> 4294967, ms |-> 295]
\* c_int::MAX
I32_MAX == 2147483647
\* libcoap's "block until there is something to do" timeout.
COAP_IO_WAIT == 0

\* ------------------------------------------------- millisecond arithmetic

Ms(n) == [s |-> n \div MILLIS_PER_SEC, ms |-> n % MILLIS_PER_SEC]

MsLeq(a, b) == a.s < b.s \/ (a.s = b.s /\ a.ms <= b.ms)
MsLess(a, b) == MsLeq(a, b) /\ a # b

MsSucc(m) ==
    IF m.ms = MILLIS_PER_SEC - 1 THEN [s |-> m.s + 1, ms |-> 0]
    ELSE [s |-> m.s, ms |-> m.ms + 1]

\* 2^32 as a pair, and reduction modulo 2^32 of a value below 2^33.
TwoPow32 == MsSucc(U32_MAX)
MsWrap(m) ==
    IF MsLeq(m, U32_MAX) THEN m
    ELSE IF m.ms >= TwoPow32.ms
         THEN [s |-> m.s - TwoPow32.s, ms |-> m.ms - TwoPow32.ms]
         ELSE [s |-> m.s - TwoPow32.s - 1, ms |-> m.ms + MILLIS_PER_SEC - TwoPow32.ms]

\* ------------------------------------------------------ std::time::Duration

as_millis(d) == [s |-> d.secs, ms |-> d.nanos \div NANOS_PER_MILLI]
subsec_micros(d) == d.nanos \div 1000
subsec_nanos(d) == d.nanos
from_millis(n) == Dur(n \div MILLIS_PER_SEC, (n % MILLIS_PER_SEC) * NANOS_PER_MILLI)

DurLeq(a, b) == a.secs < b.secs \/ (a.secs = b.secs /\ a.nanos <= b.nanos)

\* Duration::sub; the caller checks DurLeq(b, a), the code panics otherwise.
DurSub(a, b) ==
    IF a.nanos >= b.nanos THEN Dur(a.secs - b.secs, a.nanos - b.nanos)
    ELSE Dur(a.secs - b.secs - 1, a.nanos + MILLIS_PER_SEC * NANOS_PER_MILLI - b.nanos)

DurAdd(a, b) ==
    IF a.nanos + b.nanos >= MILLIS_PER_SEC * NANOS_PER_MILLI
    THEN Dur(a.secs + b.secs + 1, a.nanos + b.nanos - MILLIS_PER_SEC * NANOS_PER_MILLI)
    ELSE Dur(a.secs + b.secs, a.nanos + b.nanos)

\* ----------------------------------------------- do_io: timeout conversion

\* u128::saturating_add(1): the u128 bound is out of reach of a Duration.
u128_saturating_add_1(m) == MsSucc(m)

\* u32::try_from(x).unwrap_or(u32::MAX)
u32_try_from_or_max(m) == IF MsLeq(m, U32_MAX) THEN m ELSE U32_MAX

\* u32::saturating_add(1)
u32_saturating_add_1(m) == IF m = U32_MAX THEN U32_MAX ELSE MsSucc(m)

\* A conversion that truncates and adds nothing: timeout.as_millis() as u32.
native_timeout_truncating(timeout) ==
    IF timeout # None THEN MsWrap(as_millis(timeout)) ELSE Ms(COAP_IO_WAIT)

\* A conversion whose additions wrap around instead of saturating.
native_timeout_wrapping(timeout) ==
    IF timeout # None
    THEN LET temp_timeout == MsWrap(MsSucc(as_millis(timeout)))
         IN  IF subsec_micros(timeout) > 0 \/ subsec_nanos(timeout) > 0
             THEN MsWrap(MsSucc(temp_timeout))
             ELSE temp_timeout
    ELSE Ms(COAP_IO_WAIT)

\* A conversion that rounds up but adds no millisecond of its own.
native_timeout_rounding_only(timeout) ==
    IF timeout # None
    THEN LET temp_timeout == u32_try_from_or_max(as_millis(timeout))
         IN  IF subsec_micros(timeout) > 0 \/ subsec_nanos(timeout) > 0
             THEN u32_saturating_add_1(temp_timeout)
             ELSE temp_timeout
    ELSE Ms(COAP_IO_WAIT)

\* The millisecond timeout do_io hands to coap_io_process.
native_timeout(timeout) ==
    IF timeout # None
    THEN LET temp_timeout == u32_try_from_or_max(u128_saturating_add_1(as_millis(timeout)))
         IN  IF subsec_micros(timeout) > 0 \/ subsec_nanos(timeout) > 0
             THEN u32_saturating_add_1(temp_timeout)
             ELSE temp_timeout
    ELSE Ms(COAP_IO_WAIT)

\* What coap_io_process may return for a timeout: a negative value on failure,
\* else the milliseconds spent, a c_int.  The engine is not assumed to respect
\* the timeout: the returns reach one millisecond past it.
coap_io_process(timeout_ms) ==
    {-1, 0, 1} \cup
    IF timeout_ms = Ms(COAP_IO_WAIT) THEN {}
    ELSE IF MsLess(timeout_ms, Ms(I32_MAX))
    THEN LET t == timeout_ms.s * MILLIS_PER_SEC + timeout_ms.ms
         IN  {t, t + 1}
    ELSE {I32_MAX}

Ok(v) == [ok |-> TRUE, val |-> v]
Err(e) == [ok |-> FALSE, val |-> e]

\* do_io that takes the magnitude of the native return without testing its sign.
do_io_unchecked(timeout, spent_time) ==
    [timeout |-> timeout,
     native_timeout |-> native_timeout(timeout),
     spent_time |-> spent_time,
     native_calls |-> 1,
     result |-> Ok(from_millis(IF spent_time < 0 THEN -spent_time ELSE spent_time))]

\* do_io(timeout) when the native call returns spent_time.
do_io(timeout, spent_time) ==
    [timeout |-> timeout,
     native_timeout |-> native_timeout(timeout),
     spent_time |-> spent_time,
     native_calls |-> 1,
     result |-> IF spent_time < 0 THEN Err("Unknown") ELSE Ok(from_millis(spent_time))]

\* ------------------------------------------------------------------ state

VARIABLES
    pc,               \* where the owner of the context is: "start", "failed",
                      \* "live", "sd_check", "sd_io", "drop", "drop_sessions",
                      \* "drop_free", "drop_fields", "done", "panicked",
                      \* "aborted", "leaked"
    raw_context,      \* "null", "valid" or "freed"
    endpoints,        \* Vec<CoapEndpoint>: the transport kind of each
    resources,        \* Vec<Box<dyn UntypedCoapResource>>: the uri path of each
    client_sessions,  \* HashMap<SocketAddr, token>: session id, 0 for no entry
    native_sessions,  \* the client sessions created on the native context
    handles,          \* session ids whose CoapSessionHandle the caller holds
    pending,          \* Drop: entries of the taken table not yet visited
    panicking,        \* a panic is unwinding through shutdown
    remaining_time,   \* shutdown's remaining_time
    can_exit,         \* the last answer of coap_can_exit, <<>> before any
    io,               \* the last do_io call (None before any)
    io_calls,         \* do_io calls made
    native_io_calls,  \* coap_io_process calls made
    sd_wait,          \* shutdown's argument, [unset |-> TRUE] before it
    sd_spent,         \* sum of the durations do_io returned to shutdown
    sd_result,        \* how shutdown's body ended: "Ok", "Err", "panic"
    drops,            \* times Drop::drop was entered
    eps_destroyed,    \* endpoints destroyed by Drop (before, after the free)
    recorded,         \* session ids in the table when Drop took it
    last_connect,     \* per address, the session of the last handle returned
    context_config,   \* what was set on the native context: block mode,
                      \* response handler, PSK server setup
    crypto_provider,  \* Option<Box<dyn CoapServerCryptoProvider>>: "None", "Some"
    registered,       \* uri paths passed to add_resource so far
    ret               \* the last call and what it returned, where calls are
                      \* traced (Untraced where they are not)

vars == <<pc, raw_context, endpoints, resources, client_sessions, native_sessions,
          handles, pending, panicking, remaining_time, can_exit, io, io_calls,
          native_io_calls, sd_wait, sd_spent, sd_result, drops, eps_destroyed,
          recorded, last_connect, context_config, crypto_provider, registered, ret>>

ctx_vars == <<raw_context, endpoints, resources, client_sessions, native_sessions,
              handles, last_connect>>
io_vars == <<io, io_calls, native_io_calls>>
sd_vars == <<remaining_time, can_exit, sd_wait, sd_spent, sd_result, panicking>>
drop_vars == <<pending, drops, eps_destroyed, recorded>>
api_vars == <<context_config, crypto_provider, registered>>

\* A traced call: the operation, how it ended ("Ok", "Err", "panic"), the index
\* or session id it returned (0 for none), and the calls it made outwards, in
\* order.
Ret(op, outcome, val, calls) == [op |-> op, outcome |-> outcome, val |-> val, calls |-> calls]
Untraced == Ret("untraced", "none", 0, <<>>)
NoCall == Ret("none", "none", 0, <<>>)
Traced(r) == ret' = IF ret = Untraced THEN ret ELSE r

\* Traced runs carry no I/O and no shutdown, and leave room for one more
\* endpoint and one more resource.
EndpointsBound == IF ret = Untraced THEN MaxEndpoints ELSE MaxEndpoints + 1
ResourcesBound == IF ret = Untraced THEN MaxResources ELSE MaxResources + 1

\* The native context before coap_new_context, and as CoapContext::new leaves it.
Unconfigured == [block_mode |-> {}, response_handler |-> "none", psk |-> FALSE]
Configured ==
    [block_mode |-> {"COAP_BLOCK_USE_LIBCOAP", "COAP_BLOCK_SINGLE_BODY"},
     response_handler |-> "session_response_handler",
     psk |-> FALSE]

SessionIds == 1..Len(native_sessions)

\* Holders of the ownership token of session s: the native app-data slot, the
\* peer-address table, the entries Drop still iterates, the caller's handle.
strong_count(s) ==
    (IF native_sessions[s].app_data THEN 1 ELSE 0)
    + Cardinality({a \in Addrs : client_sessions[a] = s})
    + Cardinality({e \in pending : e[2] = s})
    + (IF s \in handles THEN 1 ELSE 0)

Init ==
    /\ pc = "start"
    /\ raw_context = "null"
    /\ endpoints = <<>>
    /\ resources = <<>>
    /\ client_sessions = [a \in Addrs |-> 0]
    /\ native_sessions = <<>>
    /\ handles = {}
    /\ pending = {}
    /\ panicking = FALSE
    /\ remaining_time = None
    /\ can_exit = <<>>
    /\ io = None
    /\ io_calls = 0
    /\ native_io_calls = 0
    /\ sd_wait = [unset |-> TRUE]
    /\ sd_spent = ZERO
    /\ sd_result = "none"
    /\ drops = 0
    /\ eps_destroyed = <<0, 0>>
    /\ recorded = {}
    /\ last_connect = [a \in Addrs |-> 0]
    /\ context_config = Unconfigured
    /\ crypto_provider = "None"
    /\ registered = {}
    /\ ret = Untraced

\* ------------------------------------------------------------ CoapContext

\* A constructor that does not test the handle.
new_failed_never(raw) == FALSE

\* raw_context.is_null()
new_failed(raw) == raw = "null"

\* CoapContext::new: coap_new_context returns raw.
New ==
    /\ pc = "start"
    /\ \E raw \in {"null", "valid"} :
        /\ raw_context' = raw
        /\ IF new_failed(raw)
           THEN /\ pc' = "failed"
                /\ context_config' = context_config
                /\ Traced(Ret("new", "Err", 0, <<"coap_new_context">>))
           ELSE /\ pc' = "live"
                /\ context_config' = Configured
                /\ Traced(Ret("new", "Ok", 0,
                              <<"coap_new_context", "coap_context_set_block_mode",
                                "coap_register_response_handler">>))
    /\ endpoints' = <<>>
    /\ resources' = <<>>
    /\ client_sessions' = [a \in Addrs |-> 0]
    /\ crypto_provider' = "None"
    /\ UNCHANGED <<native_sessions, handles, last_connect, registered>>
    /\ UNCHANGED <<io_vars, sd_vars, drop_vars>>

\* add_endpoint_udp / add_endpoint_dtls: the endpoint constructor fails or
\* the endpoint is pushed.
\* A push that stores the endpoint twice.
endpoints_push_twice(kind) == Append(Append(endpoints, kind), kind)

\* self.endpoints.push(endpoint)
endpoints_push(kind) == Append(endpoints, kind)

\* self.endpoints.last_mut().unwrap(), as the index it refers to
last_mut(v) == Len(v)

add_endpoint(kind, created) ==
    /\ pc = "live"
    /\ Len(endpoints) < EndpointsBound
    /\ endpoints' = IF created THEN endpoints_push(kind) ELSE endpoints
    /\ Traced(Ret(IF kind = "udp" THEN "add_endpoint_udp" ELSE "add_endpoint_dtls",
                  IF created THEN "Ok" ELSE "Err",
                  IF created THEN last_mut(endpoints') ELSE 0,
                  <<IF kind = "udp" THEN "CoapUdpEndpoint::new" ELSE "CoapDtlsEndpoint::new">>))
    /\ UNCHANGED <<pc, raw_context, resources, client_sessions, native_sessions,
                   handles, last_connect>>
    /\ UNCHANGED <<io_vars, sd_vars, drop_vars, api_vars>>

AddEndpointUdp == \E created \in BOOLEAN : add_endpoint("udp", created)
AddEndpointDtls == \E created \in BOOLEAN : add_endpoint("dtls", created)

\* add_resource
AddResource ==
    /\ pc = "live"
    /\ Len(resources) < ResourcesBound
    /\ \E path \in Paths :
        /\ resources' = Append(resources, path)
        /\ registered' = registered \cup {path}
    /\ Traced(Ret("add_resource", "Ok", 0, <<"coap_add_resource">>))
    /\ UNCHANGED <<pc, raw_context, endpoints, client_sessions, native_sessions,
                   handles, last_connect>>
    /\ UNCHANGED <<io_vars, sd_vars, drop_vars, context_config, crypto_provider>>

\* A lookup that only looks at the first resource.
resource_by_uri_path_first_only(uri_path) ==
    IF resources # <<>> /\ resources[1] = uri_path THEN 1 ELSE 0

\* resource_by_uri_path: the index of the first resource with that path, 0 for
\* Option::None.
resource_by_uri_path(uri_path) ==
    LET hits == {i \in 1..Len(resources) : resources[i] = uri_path}
    IN  IF hits = {} THEN 0
        ELSE CHOOSE i \in hits : \A j \in hits : i <= j

\* CoapClientSession::from_raw: the wrapper of a fresh native session, whose
\* native reference count is 1, with one token left in its app-data slot.
\* (The credential provider connect_dtls attaches to the wrapper is not kept.)
from_raw(addr) == [addr |-> addr, refs |-> 1, app_data |-> TRUE]

\* A table that does not record the session.
client_sessions_insert_lost(addr, id) == client_sessions

\* self.client_sessions.insert(addr, session.clone())
client_sessions_insert(addr, id) == [client_sessions EXCEPT ![addr] = id]

\* A failed connect that also forgets the entry of the address.
connect_failed_forgets(addr) ==
    /\ client_sessions' = [client_sessions EXCEPT ![addr] = 0]
    /\ UNCHANGED <<native_sessions, handles, last_connect>>

\* if session.is_null() { return Err(SessionCreationError::Unknown) }
connect_failed(addr) ==
    UNCHANGED <<client_sessions, native_sessions, handles, last_connect>>

\* crypto_provider.provide_info_for_hint(None) and what it answered.
Asked(answer) == "provide_info_for_hint(None): " \o answer

\* A connect_dtls that reports missing default credentials as an error.
no_default_credentials_is_err == "Err"

\* .expect("crypto provider did not provide default credentials")
no_default_credentials == "panic"

\* The tail of connect_udp and connect_dtls once the native session exists.
connect_ok(addr) ==
    LET id == Len(native_sessions) + 1
    IN  /\ native_sessions' = Append(native_sessions, from_raw(addr))
        /\ client_sessions' = client_sessions_insert(addr, id)
        /\ handles' = handles \cup {id}
        /\ last_connect' = [last_connect EXCEPT ![addr] = id]

\* connect_udp
ConnectUdp ==
    /\ pc = "live"
    /\ Len(native_sessions) < MaxSessions
    /\ \E addr \in Addrs, session_is_null \in BOOLEAN :
        IF session_is_null
        THEN /\ connect_failed(addr)
             /\ Traced(Ret("connect_udp", "Err", 0, <<"coap_new_client_session">>))
        ELSE /\ connect_ok(addr)
             /\ Traced(Ret("connect_udp", "Ok", Len(native_sessions) + 1,
                           <<"coap_new_client_session">>))
    /\ UNCHANGED <<pc, raw_context, endpoints, resources>>
    /\ UNCHANGED <<io_vars, sd_vars, drop_vars, api_vars>>

\* connect_dtls: without default credentials the expect() panics before the
\* native call.
ConnectDtls ==
    /\ pc = "live"
    /\ Len(native_sessions) < MaxSessions
    /\ \E addr \in Addrs, has_default \in BOOLEAN, session_is_null \in BOOLEAN :
        IF ~has_default
        THEN /\ UNCHANGED <<client_sessions, native_sessions, handles, last_connect>>
             /\ Traced(Ret("connect_dtls", no_default_credentials, 0,
                           <<Asked("None")>>))
        ELSE IF session_is_null
        THEN /\ connect_failed(addr)
             /\ Traced(Ret("connect_dtls", "Err", 0,
                           <<Asked("Some"),
                             "coap_new_client_session_psk2">>))
        ELSE /\ connect_ok(addr)
             /\ Traced(Ret("connect_dtls", "Ok", Len(native_sessions) + 1,
                           <<Asked("Some"),
                             "coap_new_client_session_psk2", "set_crypto_provider">>))
    /\ UNCHANGED <<pc, raw_context, endpoints, resources>>
    /\ UNCHANGED <<io_vars, sd_vars, drop_vars, api_vars>>

\* The caller lets go of a session handle.
DropHandle ==
    /\ pc = "live"
    /\ \E s \in handles : handles' = handles \ {s}
    /\ Traced(Ret("drop_handle", "Ok", 0, <<>>))
    /\ UNCHANGED <<pc, raw_context, endpoints, resources, client_sessions,
                   native_sessions, last_connect>>
    /\ UNCHANGED <<io_vars, sd_vars, drop_vars, api_vars>>

\* set_server_crypto_provider: the provider is stored; when it is Some and
\* answers provide_hint_for_sni(None), the PSK server setup is installed.
SetServerCryptoProvider ==
    /\ pc = "live"
    /\ \E provider \in {"None", "Some"}, has_initial_data \in BOOLEAN :
        /\ crypto_provider' = provider
        /\ IF provider = "Some" /\ has_initial_data
           THEN /\ context_config' = [context_config EXCEPT !.psk = TRUE]
                /\ Traced(Ret("set_server_crypto_provider", "Ok", 0,
                              <<"provide_hint_for_sni(None)", "coap_context_set_psk2">>))
           ELSE /\ context_config' = context_config
                /\ Traced(Ret("set_server_crypto_provider", "Ok", 0,
                              IF provider = "Some" THEN <<"provide_hint_for_sni(None)">>
                              ELSE <<>>))
    /\ UNCHANGED <<pc, ctx_vars, registered>>
    /\ UNCHANGED <<io_vars, sd_vars, drop_vars>>

\* ------------------------------------------------------------------ do_io

\* Timeouts the caller passes to do_io and to shutdown in the lifecycle.
IoTimeouts == {None, Dur(0, 1000000)}
ShutdownWaits == {None, ZERO, Dur(0, 2500000)}

\* Timeouts that exercise the conversion: whole and fractional milliseconds,
\* whole and fractional seconds, values around u32::MAX milliseconds.
WideSecs == {0, 1, U32_MAX.s - 1, U32_MAX.s, U32_MAX.s + 1}
WideNanos == {0, 1, 999, 1000, 999999, 1000000, 100000000, 293999999, 294000000,
              294000001, 295000000, 999999999}
WideTimeouts == {None} \cup {Dur(s, n) : s \in WideSecs, n \in WideNanos}

\* One do_io call: the native pass returns spent_time.
do_io_step(timeout, spent_time) ==
    LET r == do_io(timeout, spent_time)
    IN  /\ io' = r
        /\ io_calls' = io_calls + 1
        /\ native_io_calls' = native_io_calls + r.native_calls

\* do_io called by the owner of a live context.
DoIo ==
    /\ pc = "live"
    /\ io_calls < MaxIoCalls
    /\ \E timeout \in IoTimeouts :
        \E spent_time \in coap_io_process(native_timeout(timeout)) :
            do_io_step(timeout, spent_time)
    /\ UNCHANGED <<pc, ctx_vars, sd_vars, drop_vars, api_vars, ret>>

\* The same call over the wide range of timeouts.
DoIoWide ==
    /\ pc = "live"
    /\ io_calls < MaxIoCalls
    /\ \E timeout \in WideTimeouts :
        \E spent_time \in coap_io_process(native_timeout(timeout)) :
            do_io_step(timeout, spent_time)
    /\ UNCHANGED <<pc, ctx_vars, sd_vars, drop_vars, api_vars, ret>>

\* --------------------------------------------------------------- shutdown

\* A shutdown that forgets the context instead of dropping it.
shutdown_exit_forget == "leaked"

\* Where control goes when shutdown's body ends: self goes out of scope.
shutdown_exit == "drop"

\* A loop that keeps the budget as it was.
shutdown_remaining_kept(v, spent_time) == v

\* remaining_time.map(|v| v.sub(spent_time))
shutdown_remaining(v, spent_time) == IF v = None THEN None ELSE DurSub(v, spent_time)

\* A loop that runs one more pass than the engine asks for.
shutdown_continues_always(c) == TRUE

\* The loop condition: coap_can_exit(...) == 0
shutdown_continues(c) == c = 0

\* shutdown(exit_wait_timeout): entry.
Shutdown ==
    /\ pc = "live"
    /\ \E exit_wait_timeout \in ShutdownWaits :
        /\ remaining_time' = exit_wait_timeout
        /\ sd_wait' = exit_wait_timeout
    /\ sd_spent' = ZERO
    /\ pc' = "sd_check"
    /\ UNCHANGED <<can_exit, sd_result, panicking>>
    /\ UNCHANGED <<ctx_vars, io_vars, drop_vars, api_vars, ret>>

\* The loop test: the engine answers coap_can_exit.
ShutdownCheck ==
    /\ pc = "sd_check"
    /\ \E c \in {0, 1} :
        /\ can_exit' = <<c>>
        /\ IF shutdown_continues(c)
           THEN pc' = "sd_io" /\ UNCHANGED sd_result
           ELSE pc' = shutdown_exit /\ sd_result' = "Ok"
    /\ UNCHANGED <<remaining_time, sd_wait, sd_spent, panicking>>
    /\ UNCHANGED <<ctx_vars, io_vars, drop_vars, api_vars, ret>>

\* The loop body: do_io(remaining_time)?, then the subtraction, which panics
\* when the pass took longer than what is left.
ShutdownIo ==
    /\ pc = "sd_io"
    /\ io_calls < MaxIoCalls
    /\ \E spent_time \in coap_io_process(native_timeout(remaining_time)) :
        LET r == do_io(remaining_time, spent_time)
        IN  /\ do_io_step(remaining_time, spent_time)
            /\ IF ~r.result.ok
               THEN /\ pc' = shutdown_exit
                    /\ sd_result' = "Err"
                    /\ UNCHANGED <<remaining_time, sd_spent, panicking>>
               ELSE IF remaining_time = None \/ DurLeq(r.result.val, remaining_time)
               THEN /\ pc' = "sd_check"
                    /\ remaining_time' = shutdown_remaining(remaining_time, r.result.val)
                    /\ sd_spent' = DurAdd(sd_spent, r.result.val)
                    /\ UNCHANGED <<sd_result, panicking>>
               ELSE /\ pc' = shutdown_exit
                    /\ sd_result' = "panic"
                    /\ panicking' = TRUE
                    /\ UNCHANGED <<remaining_time, sd_spent>>
    /\ UNCHANGED <<can_exit, sd_wait>>
    /\ UNCHANGED <<ctx_vars, drop_vars, api_vars, ret>>

\* ------------------------------------------------------------------- Drop

\* The owner lets the context go out of scope.
ScopeExit ==
    /\ pc = "live"
    /\ pc' = "drop"
    /\ Traced(Ret("scope_exit", "Ok", 0, <<>>))
    /\ UNCHANGED <<ctx_vars, io_vars, sd_vars, drop_vars, api_vars>>

\* A teardown that leaves the endpoints to the field destructors.
drop_endpoints_kept == endpoints

\* self.endpoints.clear()
drop_endpoints_clear == <<>>

\* A teardown that takes the token whoever else holds it.
try_unwrap_unchecked(s) == TRUE

\* Rc::try_unwrap(extracted_ref) after the table's own token was dropped:
\* succeeds when the token taken back from the app-data slot is the only one.
try_unwrap(s) == strong_count(s) - 1 = 1

\* Drop::drop, up to the loop: the endpoints are cleared and the table taken.
DropEndpoints ==
    /\ pc = "drop"
    /\ drops' = drops + 1
    /\ endpoints' = drop_endpoints_clear
    /\ eps_destroyed' = <<Len(endpoints) - Len(endpoints'), 0>>
    /\ pending' = {<<a, client_sessions[a]>> : a \in {b \in Addrs : client_sessions[b] # 0}}
    /\ recorded' = {client_sessions[a] : a \in {b \in Addrs : client_sessions[b] # 0}}
    /\ client_sessions' = [a \in Addrs |-> 0]
    /\ pc' = "drop_sessions"
    /\ Traced(Ret("drop", "running", 0, <<"endpoints.clear">>))
    /\ UNCHANGED <<raw_context, resources, native_sessions, handles, last_connect>>
    /\ UNCHANGED <<io_vars, sd_vars, api_vars>>

\* One iteration of the loop over the taken table, in the map's own order.
DropSession ==
    /\ pc = "drop_sessions"
    /\ \E e \in pending :
        LET s == e[2]
        IN  IF try_unwrap(s)
            THEN /\ native_sessions' =
                        [native_sessions EXCEPT ![s].refs = @ - 1, ![s].app_data = FALSE]
                 /\ pending' = pending \ {e}
                 /\ Traced(Ret("drop", "running", s, <<"coap_session_release">>))
                 /\ UNCHANGED <<pc, resources>>
            ELSE /\ native_sessions' = [native_sessions EXCEPT ![s].app_data = FALSE]
                 /\ pending' = {}
                 /\ resources' = <<>>
                 /\ Traced(Ret("drop", "panic", s, <<>>))
                 /\ pc' = IF panicking THEN "aborted" ELSE "panicked"
    /\ UNCHANGED <<raw_context, endpoints, client_sessions, handles, last_connect>>
    /\ UNCHANGED <<io_vars, sd_vars, drops, eps_destroyed, recorded, api_vars>>

\* A teardown that frees the context without waiting for the loop.
drop_loop_done_early == TRUE

\* The loop over the taken table has visited every entry.
drop_loop_done == pending = {}

\* coap_free_context(self.raw_context)
DropFree ==
    /\ pc = "drop_sessions"
    /\ drop_loop_done
    /\ raw_context' = "freed"
    /\ pc' = "drop_fields"
    /\ Traced(Ret("drop", "running", 0, <<"coap_free_context">>))
    /\ UNCHANGED <<endpoints, resources, client_sessions, native_sessions, handles,
                   last_connect>>
    /\ UNCHANGED <<io_vars, sd_vars, drop_vars, api_vars>>

\* After Drop::drop returns, the fields are dropped: what is left in the
\* endpoint and resource vectors goes now.
DropFields ==
    /\ pc = "drop_fields"
    /\ endpoints' = <<>>
    /\ eps_destroyed' = <<eps_destroyed[1], Len(endpoints)>>
    /\ resources' = <<>>
    /\ pc' = "done"
    /\ Traced(Ret("drop", "Ok", 0, <<>>))
    /\ UNCHANGED <<raw_context, client_sessions, native_sessions, handles, last_connect>>
    /\ UNCHANGED <<io_vars, sd_vars, pending, drops, recorded, api_vars>>

\* --------------------------------------------------------- specifications

Next ==
    \/ New
    \/ AddEndpointUdp
    \/ AddEndpointDtls
    \/ AddResource
    \/ ConnectUdp
    \/ ConnectDtls
    \/ DropHandle
    \/ DoIo
    \/ Shutdown
    \/ ShutdownCheck
    \/ ShutdownIo
    \/ ScopeExit
    \/ DropEndpoints
    \/ DropSession
    \/ DropFree
    \/ DropFields

Spec == Init /\ [][Next]_vars

\* The conversion in do_io, on a context that was just created.
InitIo ==
    /\ pc = "live"
    /\ raw_context = "valid"
    /\ endpoints = <<>>
    /\ resources = <<>>
    /\ client_sessions = [a \in Addrs |-> 0]
    /\ native_sessions = <<>>
    /\ handles = {}
    /\ pending = {}
    /\ panicking = FALSE
    /\ remaining_time = None
    /\ can_exit = <<>>
    /\ io = None
    /\ io_calls = 0
    /\ native_io_calls = 0
    /\ sd_wait = [unset |-> TRUE]
    /\ sd_spent = ZERO
    /\ sd_result = "none"
    /\ drops = 0
    /\ eps_destroyed = <<0, 0>>
    /\ recorded = {}
    /\ last_connect = [a \in Addrs |-> 0]
    /\ context_config = Configured
    /\ crypto_provider = "None"
    /\ registered = {}
    /\ ret = Untraced

NextIo == DoIoWide

SpecIo == InitIo /\ [][NextIo]_vars

\* The calls that build a context up and tear it down, each traced with what
\* it returned.
InitApi ==
    /\ pc = "start"
    /\ raw_context = "null"
    /\ endpoints = <<>>
    /\ resources = <<>>
    /\ client_sessions = [a \in Addrs |-> 0]
    /\ native_sessions = <<>>
    /\ handles = {}
    /\ pending = {}
    /\ panicking = FALSE
    /\ remaining_time = None
    /\ can_exit = <<>>
    /\ io = None
    /\ io_calls = 0
    /\ native_io_calls = 0
    /\ sd_wait = [unset |-> TRUE]
    /\ sd_spent = ZERO
    /\ sd_result = "none"
    /\ drops = 0
    /\ eps_destroyed = <<0, 0>>
    /\ recorded = {}
    /\ last_connect = [a \in Addrs |-> 0]
    /\ context_config = Unconfigured
    /\ crypto_provider = "None"
    /\ registered = {}
    /\ ret = NoCall

NextApi ==
    \/ New
    \/ AddEndpointUdp
    \/ AddEndpointDtls
    \/ AddResource
    \/ ConnectUdp
    \/ ConnectDtls
    \/ SetServerCryptoProvider
    \/ DropHandle
    \/ ScopeExit
    \/ DropEndpoints
    \/ DropSession
    \/ DropFree
    \/ DropFields

SpecApi == InitApi /\ [][NextApi]_vars

\* ----------------------------------------------------------------- claims

Released(s) == native_sessions[s].refs = 0
TeardownPcs == {"drop", "drop_sessions", "drop_fields", "done", "panicked", "aborted"}
ShutdownPcs == {"sd_check", "sd_io"}

\* C1: a teardown that completes destroys the endpoints first, then releases
\* every session the table recorded, then frees the native context; no endpoint
\* is destroyed and no session released once the context is freed.
C1_TeardownOrder ==
    /\ [](pc = "done" =>
            /\ raw_context = "freed"
            /\ endpoints = <<>>
            /\ eps_destroyed[2] = 0
            /\ \A s \in recorded : Released(s))
    /\ [][/\ Len(endpoints') < Len(endpoints) =>
                /\ raw_context = "valid"
                /\ raw_context' = "valid"
                /\ \A s \in SessionIds : ~Released(s)
          /\ (\E s \in SessionIds : native_sessions'[s].refs < native_sessions[s].refs) =>
                /\ endpoints = <<>>
                /\ raw_context = "valid"
                /\ raw_context' = "valid"
          /\ (raw_context' = "freed" /\ raw_context # "freed") =>
                /\ endpoints = <<>>
                /\ pending = {}
                /\ \A s \in recorded : Released(s)]_vars

C1_Witness ==
    /\ pc = "done"
    /\ raw_context = "freed"
    /\ eps_destroyed[1] > 0
    /\ Cardinality(recorded) = 2

C3_ConnectRecorded ==
    pc \in {"live", "sd_check", "sd_io", "drop"} =>
        \A a \in Addrs :
            last_connect[a] # 0 =>
                /\ client_sessions[a] = last_connect[a]
                /\ native_sessions[last_connect[a]].addr = a

C3_Witness ==
    /\ pc = "live"
    /\ \E a \in Addrs :
        /\ last_connect[a] = 2
        /\ native_sessions[1].addr = a
        /\ client_sessions[a] = 2

\* C4: a finite timeout with a sub-millisecond remainder gets a native timeout
\* strictly above its whole milliseconds, as long as either is below u32::MAX.
C4_RoundsUp ==
    (/\ io # None
     /\ io.timeout # None
     /\ io.timeout.nanos % NANOS_PER_MILLI # 0
     /\ \/ MsLess(as_millis(io.timeout), U32_MAX)
        \/ MsLess(io.native_timeout, U32_MAX))
    => MsLess(as_millis(io.timeout), io.native_timeout)

C4_Witness ==
    /\ io # None
    /\ io.timeout # None
    /\ io.timeout.nanos % NANOS_PER_MILLI # 0
    /\ MsSucc(as_millis(io.timeout)) = U32_MAX
    /\ io.native_timeout = U32_MAX

\* C5: the conversion never wraps: the native timeout is never below the whole
\* milliseconds (capped at u32::MAX), it is u32::MAX whenever the milliseconds
\* plus the increments pass u32::MAX, and it is COAP_IO_WAIT without a timeout.
C5_Saturates ==
    io # None =>
        IF io.timeout = None THEN io.native_timeout = Ms(COAP_IO_WAIT)
        ELSE LET m == as_millis(io.timeout)
                 plus1 == MsSucc(m)
                 plus2 == MsSucc(plus1)
             IN  /\ MsLeq(io.native_timeout, U32_MAX)
                 /\ MsLeq(IF MsLeq(m, U32_MAX) THEN m ELSE U32_MAX, io.native_timeout)
                 /\ MsLess(U32_MAX, plus1) => io.native_timeout = U32_MAX
                 /\ (io.timeout.nanos > 0 /\ MsLess(U32_MAX, plus2)) =>
                        io.native_timeout = U32_MAX

C5_Witness ==
    /\ io # None
    /\ io.timeout # None
    /\ MsLess(U32_MAX, as_millis(io.timeout))
    /\ io.native_timeout = U32_MAX

\* C6: do_io fails with Unknown exactly when the native pass returned a
\* negative value, else succeeds with that value as milliseconds; one native
\* pass per do_io.
C6_ResultOfNativeReturn ==
    /\ native_io_calls = io_calls
    /\ io # None =>
        /\ io.native_calls = 1
        /\ io.result.ok <=> io.spent_time >= 0
        /\ ~io.result.ok => io.result.val = "Unknown"
        /\ io.result.ok =>
            /\ io.result.val.nanos % NANOS_PER_MILLI = 0
            /\ io.result.val.secs * MILLIS_PER_SEC
                 + io.result.val.nanos \div NANOS_PER_MILLI = io.spent_time

C6_Witness ==
    /\ io_calls = 2
    /\ io # None
    /\ ~io.result.ok
    /\ io.spent_time < 0

\* C7: shutdown calls do_io only after the engine answered "not safe to exit",
\* each call gets max_wait less the durations the earlier calls returned (no
\* timeout without max_wait), and shutdown returns Ok only after the engine
\* answered "safe to exit".
C7_ShutdownLoop ==
    /\ [](/\ pc = "sd_io" => can_exit = <<0>>
          /\ sd_result = "Ok" => (can_exit # <<>> /\ can_exit[1] # 0))
    /\ [][(pc \in ShutdownPcs /\ io_calls' # io_calls) =>
            /\ can_exit = <<0>>
            /\ io'.timeout = IF sd_wait = None THEN None ELSE DurSub(sd_wait, sd_spent)]_vars

C7_Witness ==
    /\ sd_result = "Ok"
    /\ sd_wait = Dur(0, 2500000)
    /\ sd_spent = Dur(0, 2000000)
    /\ io # None
    /\ io.timeout = Dur(0, 1500000)

\* C8: once a finite budget has reached zero with the engine not yet safe to
\* exit, shutdown makes no further pass (it returns Ok instead).
C8_ExhaustedBudgetReturns ==
    pc = "sd_io" => (remaining_time = None \/ remaining_time # ZERO)

\* C9: a successful do_io with a finite timeout returns at most that timeout,
\* when the engine spent no more than the native timeout it was handed.
C9_ElapsedWithinTimeout ==
    (/\ io # None
     /\ io.timeout # None
     /\ io.result.ok
     /\ MsLeq(Ms(io.spent_time), io.native_timeout))
    => DurLeq(io.result.val, io.timeout)

\* C10: however shutdown's body ends, Drop is what follows: it is entered once,
\* no do_io call comes after it, and when it completes the endpoints, the
\* recorded sessions and the native context are gone.
C10_ShutdownDrops ==
    /\ [](/\ drops <= 1
          /\ sd_result # "none" => pc \in TeardownPcs
          /\ (sd_result # "none" /\ pc # "drop") => drops = 1
          /\ (sd_result # "none" /\ pc = "done") =>
                /\ raw_context = "freed"
                /\ endpoints = <<>>
                /\ \A s \in recorded : Released(s))
    /\ [][io_calls' # io_calls => (drops = 0 /\ pc \notin TeardownPcs)]_vars

C10_Witness ==
    /\ pc = "done"
    /\ sd_result = "Err"
    /\ drops = 1
    /\ eps_destroyed[1] > 0
    /\ recorded # {}

\* ---------------------------------------------------------------- C11
\* C11: connect_dtls asks the provider for its default credentials, with no
\* hint, before it does anything else; when the provider has none the call
\* panics, no native session is created, the table is as before, and the
\* outcome is never an error return.
C11_DefaultCredentialsFirst ==
    [][ret'.op = "connect_dtls" =>
           /\ Head(ret'.calls) \in {Asked("None"), Asked("Some")}
           /\ Head(ret'.calls) = Asked("None") =>
                  /\ ret'.outcome = "panic"
                  /\ Len(ret'.calls) = 1
                  /\ UNCHANGED <<native_sessions, client_sessions, handles>>
           /\ ret'.outcome = "panic" => Head(ret'.calls) = Asked("None")]_vars

C11_Witness ==
    /\ ret.op = "connect_dtls"
    /\ ret.outcome = "panic"
    /\ \E a \in Addrs : client_sessions[a] # 0

\* ---------------------------------------------------------------- C12
AddEndpointOps == {"add_endpoint_udp", "add_endpoint_dtls"}

\* C12: a successful add_endpoint_udp or add_endpoint_dtls appends exactly one
\* endpoint at the end of the list, leaves the earlier endpoints and their
\* order as they were, and returns a reference to the endpoint just added.
C12_AppendsOne ==
    [][ret'.op \in AddEndpointOps /\ ret'.outcome = "Ok" =>
           /\ Len(endpoints') = Len(endpoints) + 1
           /\ SubSeq(endpoints', 1, Len(endpoints)) = endpoints
           /\ endpoints'[Len(endpoints')] = (IF ret'.op = "add_endpoint_udp" THEN "udp" ELSE "dtls")
           /\ ret'.val = Len(endpoints) + 1]_vars

C12_Witness ==
    /\ ret.op = "add_endpoint_dtls"
    /\ ret.outcome = "Ok"
    /\ ret.val = 2
    /\ endpoints = <<"udp", "dtls">>

\* ---------------------------------------------------------------- C13
\* The context object exists: constructed, and its fields not yet dropped.
ContextExists == pc \notin {"start", "failed", "done", "panicked", "aborted"}

Found(p) == resource_by_uri_path(p) # 0

\* C13: while the context exists, resource_by_uri_path(p) returns a resource
\* whose path is p exactly when a resource with path p was registered before,
\* and not-found otherwise; a path that is found stays found in every later
\* state until the context is destroyed.
C13_LookupFindsRegistered ==
    /\ [](ContextExists =>
            \A p \in Paths :
                /\ Found(p) <=> p \in registered
                /\ Found(p) => resources[resource_by_uri_path(p)] = p)
    /\ [][ContextExists' => \A p \in Paths : Found(p) => Found(p)']_vars

C13_Witness ==
    /\ pc = "live"
    /\ resources = <<"hello", "other">>
    /\ resource_by_uri_path("other") = 2
    /\ resource_by_uri_path("hello") = 1

\* ---------------------------------------------------------------- C14
\* C14: CoapContext::new fails (ContextCreationError::Unknown) exactly when
\* coap_new_context returns null; when it succeeds the context has no
\* endpoints, no resources, an empty session table and no server credential
\* provider, and the native context has its block-wise mode set and the
\* response handler installed.
C14_NewContext ==
    ret.op = "new" =>
        /\ ret.outcome = "Err" <=> raw_context = "null"
        /\ ret.outcome = "Ok" <=> raw_context = "valid"
        /\ ret.outcome = "Ok" =>
               /\ endpoints = <<>>
               /\ resources = <<>>
               /\ \A a \in Addrs : client_sessions[a] = 0
               /\ crypto_provider = "None"
               /\ context_config.block_mode =
                      {"COAP_BLOCK_USE_LIBCOAP", "COAP_BLOCK_SINGLE_BODY"}
               /\ context_config.response_handler = "session_response_handler"

C14_Witness ==
    /\ ret.op = "new"
    /\ ret.outcome = "Ok"
    /\ context_config = Configured
    /\ pc = "live"

\* ---------------------------------------------------------------- C15
\* C15: after any sequence of successful connects, several to the same address
\* included, the table holds a token for every client session that was created
\* and is not yet released, and a finished teardown has released every created
\* session.
C15_TableHoldsEverySession ==
    /\ pc = "live" =>
           \A s \in SessionIds :
               native_sessions[s].refs > 0 => \E a \in Addrs : client_sessions[a] = s
    /\ pc = "done" => \A s \in SessionIds : native_sessions[s].refs = 0

\* ---------------------------------------------------------------- C16
CreationOps == {"add_endpoint_udp", "add_endpoint_dtls", "connect_udp", "connect_dtls"}

\* C16: a creation operation that returns an error (add_endpoint_udp,
\* add_endpoint_dtls, connect_udp or connect_dtls) leaves the endpoint list,
\* the resource list and the session table exactly as they were before it.
C16_ErrorLeavesCollections ==
    [][ret'.op \in CreationOps /\ ret'.outcome = "Err" =>
           UNCHANGED <<endpoints, resources, client_sessions>>]_vars

C16_Witness ==
    /\ ret.op \in {"connect_udp", "connect_dtls"}
    /\ ret.outcome = "Err"
    /\ endpoints # <<>>
    /\ resources # <<>>
    /\ \E a \in Addrs : client_sessions[a] # 0

\* ---------------------------------------------------------------- C17
\* C17: during shutdown with a finite budget the subtraction of a pass's
\* elapsed time never underflows, as long as the engine spent no more than the
\* millisecond timeout it was handed.
C17_BudgetNeverUnderflows ==
    (sd_result = "panic" /\ io # None) => ~MsLeq(Ms(io.spent_time), io.native_timeout)

\* ---------------------------------------------------------------- C18
\* C18: for every finite timeout, zero included, the millisecond value handed
\* to coap_io_process is at least 1 and so never the indefinite-wait value 0.
C18_FiniteNeverWaits ==
    (io # None /\ io.timeout # None) =>
        /\ MsLeq(Ms(1), io.native_timeout)
        /\ io.native_timeout # Ms(COAP_IO_WAIT)

C18_Witness ==
    /\ io # None
    /\ io.timeout = ZERO
    /\ io.native_timeout = Ms(1)

\* ---------------------------------------------------------------- C19
\* C19: the native context is freed at most once, and only as the last step of
\* teardown (endpoints cleared, every table entry visited); once it is freed
\* no operation on it follows: no endpoint or resource registration, no
\* connect, no do_io pass, no can-exit query, no session release, no
\* configuration.
C19_FreedOnceAndLast ==
    [][/\ raw_context' = "freed" /\ raw_context # "freed" =>
              /\ raw_context = "valid"
              /\ pc = "drop_sessions"
              /\ pending = {}
              /\ endpoints = <<>>
       /\ raw_context = "freed" =>
              /\ UNCHANGED <<raw_context, endpoints, eps_destroyed, registered,
                             client_sessions, native_sessions, can_exit,
                             io_calls, native_io_calls, context_config, drops>>
              /\ Len(resources') <= Len(resources)]_vars

C19_Witness ==
    /\ raw_context = "freed"
    /\ pc = "done"
    /\ drops = 1
    /\ io_calls > 0
    /\ \E s \in SessionIds : Released(s)

\* ---------------------------------------------------------------- C20
\* C20: shutdown ends in one of two ways: with success, once a can-exit query
\* has answered that it is safe to exit, or with the error of a failed pass,
\* returned at once.
C20_ShutdownReturns ==
    sd_result # "none" =>
        \/ sd_result = "Ok" /\ can_exit = <<1>>
        \/ sd_result = "Err" /\ io # None /\ ~io.result.ok

============================================================================
